---- MODULE Spec2Model ----
(***************************************************************************)
(* Model of scrape.py: the section/date resolver                           *)
(* (choose_date_for_section), the line-by-line timeline parser and the     *)
(* timeline finalizer (both in parse_schedule).                            *)
(*                                                                         *)
(* Encodings.  A date is the tuple <<year, month, day>>; "no date" (None)  *)
(* is <<>>.  A time of day is <<hour, minute>>; None is <<>>.  A zoned     *)
(* datetime is the number of wall-clock minutes since the midnight before  *)
(* ordinal day 1: every datetime of one run carries the same tzinfo        *)
(* object, and Python compares and shifts such datetimes by their          *)
(* wall-clock fields alone.  A text line is a record: what the two regular *)
(* expressions can see of it.                                              *)
(***************************************************************************)
EXTENDS Integers, Sequences, FiniteSets, TLC

VARIABLES
    today,              \* today_local / the resolver's `today`
    target_weekday,     \* resolver argument
    target_day,         \* resolver argument
    chosen,             \* value returned by choose_date_for_section
    lines,              \* extract_lines(html)
    i,                  \* loop cursor (0-based, as in the code)
    current_date,       \* Optional[date]
    pending_start_time, \* Optional[time]
    programmes,         \* the list `programmes` up to line 232
    result,             \* the list parse_schedule returns
    again,              \* the list a second finalization pass returns
    pc,                 \* position in the program
    exit_status,        \* the process's exit status, NotExited while it runs
    out_dir_created,    \* ensure_output_dir(OUTPUT_FILE) has run
    output              \* OUTPUT_FILE: <<>> until written, then <<document>>

mainVars == <<exit_status, out_dir_created, output>>

vars == <<today, target_weekday, target_day, chosen, lines, i, current_date,
          pending_start_time, programmes, result, again, pc, exit_status,
          out_dir_created, output>>

(***************************************************************************)
(* Bounds of the model.                                                    *)
(***************************************************************************)
YearLo == 2023
YearHi == 2024
MaxDay == 33
MaxLen == 4
MaxPairs == 2

NoDate == <<>>
NoTime == <<>>
NoWeekday == -1
NotExited == -1

(***************************************************************************)
(* datetime.date as the code uses it                                       *)
(***************************************************************************)
IsLeap(y) == (y % 4 = 0 /\ y % 100 # 0) \/ y % 400 = 0

DaysInMonth(y, m) ==
    IF m = 2 THEN (IF IsLeap(y) THEN 29 ELSE 28)
    ELSE IF m \in {4, 6, 9, 11} THEN 30 ELSE 31

\* date(y, m, d) raises ValueError unless this holds
ValidDate(y, m, d) == m \in 1..12 /\ d >= 1 /\ d <= DaysInMonth(y, m)

DaysBeforeYear(y) ==
    LET p == y - 1 IN p * 365 + (p \div 4) - (p \div 100) + (p \div 400)

DaysBeforeMonth(y, m) ==
    <<0, 31, 59, 90, 120, 151, 181, 212, 243, 273, 304, 334>>[m]
    + (IF m > 2 /\ IsLeap(y) THEN 1 ELSE 0)

toordinal(d) == DaysBeforeYear(d[1]) + DaysBeforeMonth(d[1], d[2]) + d[3]

\* date.weekday(): Monday = 0 .. Sunday = 6
weekday(d) == (toordinal(d) + 6) % 7

RECURSIVE YearOfOrdinal(_, _)
YearOfOrdinal(n, y) ==
    IF n <= DaysBeforeYear(y + 1) THEN y ELSE YearOfOrdinal(n, y + 1)

RECURSIVE MonthOfOrdinal(_, _, _)
MonthOfOrdinal(n, y, m) ==
    IF m = 12 \/ n <= DaysBeforeYear(y) + DaysBeforeMonth(y, m + 1)
    THEN m ELSE MonthOfOrdinal(n, y, m + 1)

\* date + timedelta(days = k), through the ordinal
fromordinal(n) ==
    LET y == YearOfOrdinal(n, (n \div 366) + 1)
        m == MonthOfOrdinal(n, y, 1)
    IN  <<y, m, n - DaysBeforeYear(y) - DaysBeforeMonth(y, m)>>

Abs(x) == IF x < 0 THEN -x ELSE x

\* mutant: an unstable sort, equal keys end up in reverse order
RECURSIVE InsertByKeyTiesFirst(_, _)
InsertByKeyTiesFirst(s, x) ==
    IF s = <<>> THEN <<x>>
    ELSE IF x.key <= s[Len(s)].key
         THEN Append(InsertByKeyTiesFirst(SubSeq(s, 1, Len(s) - 1), x), s[Len(s)])
         ELSE Append(s, x)

\* list.sort(key = ...): stable, by insertion; s is a sequence of
\* [key, val] records (each element paired with its sort key)
RECURSIVE InsertByKey(_, _)
InsertByKey(s, x) ==
    IF s = <<>> THEN <<x>>
    ELSE IF x.key < s[Len(s)].key
         THEN Append(InsertByKey(SubSeq(s, 1, Len(s) - 1), x), s[Len(s)])
         ELSE Append(s, x)

RECURSIVE SortKeyed(_)
SortKeyed(s) ==
    IF s = <<>> THEN <<>>
    ELSE InsertByKey(SortKeyed(SubSeq(s, 1, Len(s) - 1)), s[Len(s)])

StableSort(keyed) ==
    LET sorted == SortKeyed(keyed) IN [k \in 1..Len(keyed) |-> sorted[k].val]

(***************************************************************************)
(* choose_date_for_section                                                 *)
(***************************************************************************)
\* lines 121-123: the (year, month) examined for one month_offset
ExaminedMonth(month_offset, tdy) ==
    LET first_of_month == <<tdy[1], tdy[2], 1>>
        approx == fromordinal(toordinal(first_of_month) + 31 * month_offset)
    IN  <<approx[1], approx[2]>>

\* lines 124-129: the candidate one month contributes, as a list of 0 or 1 dates
CandidateOf(month_offset, wd, day, tdy) ==
    LET ym == ExaminedMonth(month_offset, tdy)
    IN  IF ~ValidDate(ym[1], ym[2], day) THEN <<>>
        ELSE IF weekday(<<ym[1], ym[2], day>>) = wd
             THEN << <<ym[1], ym[2], day>> >>
             ELSE <<>>

Candidates(wd, day, tdy) ==
    CandidateOf(-1, wd, day, tdy) \o CandidateOf(0, wd, day, tdy)
        \o CandidateOf(1, wd, day, tdy)

\* mutant: the fallback of lines 134-137 skips the date of today's month
choose_date_today_fallback(wd, day, tdy) ==
    LET candidates == Candidates(wd, day, tdy)
        Distance(d) == Abs(toordinal(d) - toordinal(tdy))
    IN  IF candidates = <<>> THEN tdy
        ELSE StableSort([k \in 1..Len(candidates) |->
                 [key |-> Distance(candidates[k]), val |-> candidates[k]]])[1]

\* mutant: the months are enumerated next, current, previous
choose_date_reversed_months(wd, day, tdy) ==
    LET candidates == CandidateOf(1, wd, day, tdy) \o CandidateOf(0, wd, day, tdy)
                         \o CandidateOf(-1, wd, day, tdy)
        Distance(d) == Abs(toordinal(d) - toordinal(tdy))
    IN  IF candidates = <<>>
        THEN IF ValidDate(tdy[1], tdy[2], day)
             THEN <<tdy[1], tdy[2], day>>
             ELSE tdy
        ELSE StableSort([k \in 1..Len(candidates) |->
                 [key |-> Distance(candidates[k]), val |-> candidates[k]]])[1]

choose_date_for_section(wd, day, tdy) ==
    LET candidates == Candidates(wd, day, tdy)
        Distance(d) == Abs(toordinal(d) - toordinal(tdy))
    IN  IF candidates = <<>>
        THEN IF ValidDate(tdy[1], tdy[2], day)
             THEN <<tdy[1], tdy[2], day>>
             ELSE tdy
        ELSE StableSort([k \in 1..Len(candidates) |->
                 [key |-> Distance(candidates[k]), val |-> candidates[k]]])[1]

(***************************************************************************)
(* Text lines                                                              *)
(***************************************************************************)
\* a line SECTION_RE finds a header in: the weekday word and the 1-2 digits
SectionLine(word, daynum) ==
    [kind |-> "section", text |-> word, n1 |-> daynum, n2 |-> 0]
\* a line TIME_RE matches: two digits, a colon, two digits
TimeLine(hh, mm) == [kind |-> "time", text |-> "", n1 |-> hh, n2 |-> mm]
\* any other non-empty trimmed line
TextLine(t) == [kind |-> "text", text |-> t, n1 |-> 0, n2 |-> 0]

SECTION_RE_search(ln) == ln.kind = "section"
TIME_RE_match(ln) == ln.kind = "time"

\* str.lower() on the weekday words of the model
Lower(w) ==
    CASE w = "Jueves" -> "jueves"
      [] w = "Viernes" -> "viernes"
      [] OTHER -> w

\* mutant: an unknown weekday word is taken for Monday
WEEKDAY_ES_default(w) ==
    CASE w = "lunes" -> 0
      [] w = "martes" -> 1
      [] w \in {"miércoles", "miercoles"} -> 2
      [] w = "jueves" -> 3
      [] w = "viernes" -> 4
      [] w \in {"sábado", "sabado"} -> 5
      [] w = "domingo" -> 6
      [] OTHER -> 0

\* WEEKDAY_ES.get(word)
WEEKDAY_ES(w) ==
    CASE w = "lunes" -> 0
      [] w = "martes" -> 1
      [] w \in {"miércoles", "miercoles"} -> 2
      [] w = "jueves" -> 3
      [] w = "viernes" -> 4
      [] w \in {"sábado", "sabado"} -> 5
      [] w = "domingo" -> 6
      [] OTHER -> NoWeekday

\* time(hh, mm) raises ValueError unless this holds
ValidTime(hh, mm) == hh \in 0..23 /\ mm \in 0..59

MinutesPerDay == 1440

\* mutant: the minutes of the pending time are lost
combine_hour_only(d, t) == toordinal(d) * MinutesPerDay + t[1] * 60

\* datetime.combine(date, time).replace(tzinfo = TZ)
combine(d, t) == toordinal(d) * MinutesPerDay + t[1] * 60 + t[2]

Programme(start, stop, title) == [start |-> start, stop |-> stop, title |-> title]

(***************************************************************************)
(* parse_schedule: the finalization pass (lines 217-247)                   *)
(***************************************************************************)
\* mutant: the sort of line 218 is missing
SortSkipped(ps) == ps

\* line 218: programmes.sort(key=lambda p: p.start)
SortByStart(ps) ==
    StableSort([k \in 1..Len(ps) |-> [key |-> ps[k].start, val |-> ps[k]]])

\* mutant: the last stop is 24 hours after the start, not the next midnight
NextDaySameTime(start) == start + MinutesPerDay

\* lines 230-232: (last_start + timedelta(days=1)).replace(hour=0, minute=0, ...)
NextMidnight(start) == ((start + MinutesPerDay) \div MinutesPerDay) * MinutesPerDay

\* mutant: every entry, not only the last, ends at the next midnight
DeriveStopsAllMidnight(ps) ==
    [idx \in 1..Len(ps) |-> [ps[idx] EXCEPT !.stop = NextMidnight(ps[idx].start)]]

\* mutant: line 226 reads the next entry's stop instead of its start
DeriveStopsFromStop(ps) ==
    [idx \in 1..Len(ps) |->
        IF idx + 1 <= Len(ps)
        THEN [ps[idx] EXCEPT !.stop = ps[idx + 1].stop]
        ELSE [ps[idx] EXCEPT !.stop = NextMidnight(ps[idx].start)]]

\* lines 224-232: every stop is the next start, the last one the next midnight
DeriveStops(ps) ==
    [idx \in 1..Len(ps) |->
        IF idx + 1 <= Len(ps)
        THEN [ps[idx] EXCEPT !.stop = ps[idx + 1].start]
        ELSE [ps[idx] EXCEPT !.stop = NextMidnight(ps[idx].start)]]

\* mutant: the filter of line 235 lets zero-length entries through
KeepNonNegative(p) == p.title # "" /\ p.stop >= p.start

\* mutant: the filter of line 235 tests the title only
KeepTitled(p) == p.title # ""

\* line 235: p.title and p.stop > p.start
KeepProgramme(p) == p.title # "" /\ p.stop > p.start

FilterValid(ps) == SelectSeq(ps, KeepProgramme)

\* lines 238-245: keep the first entry of every (start, stop, title) triple
RECURSIVE Dedup(_)
Dedup(ps) ==
    IF ps = <<>> THEN <<>>
    ELSE LET front == SubSeq(ps, 1, Len(ps) - 1)
             p == ps[Len(ps)]
         IN  IF \E k \in 1..Len(front) :
                    /\ front[k].start = p.start
                    /\ front[k].stop = p.stop
                    /\ front[k].title = p.title
             THEN Dedup(front)
             ELSE Append(Dedup(front), p)

\* the list `programmes` after line 232 (sorted in place, stops set in place)
Finalized(ps) == IF ps = <<>> THEN <<>> ELSE DeriveStops(SortByStart(ps))

\* the list returned at line 222 or 247
Returned(ps) == IF ps = <<>> THEN <<>> ELSE Dedup(FilterValid(Finalized(ps)))

(***************************************************************************)
(* Inputs                                                                  *)
(***************************************************************************)
Headers == {SectionLine("Jueves", 1), SectionLine("viernes", 2)}
UnknownHeaders == {SectionLine("feriado", 3)}
ValidTimes == {TimeLine(8, 0), TimeLine(9, 30)}
BadTimes == {TimeLine(24, 0)}
Titles == {TextLine("Morning News"), TextLine("Talk Show")}

Alphabet == Headers \cup UnknownHeaders \cup ValidTimes \cup BadTimes \cup Titles

SeqsUpTo(S, n) == UNION {[1..k -> S] : k \in 0..n}

\* a run of (time marker, title) pairs
RECURSIVE Flatten(_)
Flatten(ss) == IF ss = <<>> THEN <<>> ELSE Head(ss) \o Flatten(Tail(ss))

Pairs == {<<t, x>> : t \in ValidTimes, x \in Titles}
PairRuns == {Flatten(r) : r \in SeqsUpTo(Pairs, MaxPairs)}

\* well-formed pages of one section (header, pairs) and of two sections
OneSection == {<<h>> \o r : h \in Headers \cup UnknownHeaders, r \in PairRuns}
Pages == OneSection \cup {p1 \o p2 : p1 \in OneSection, p2 \in OneSection}

Inputs == SeqsUpTo(Alphabet, MaxLen) \cup Pages

Todays == {<<2024, 2, 3>>, <<2024, 3, 1>>}

AllDates ==
    {<<y, m, d>> : y \in YearLo..YearHi, m \in 1..12, d \in 1..31}

(***************************************************************************)
(* The program                                                             *)
(***************************************************************************)
Init ==
    /\ today \in Todays
    /\ target_weekday = 0
    /\ target_day = 1
    /\ chosen = NoDate
    /\ lines \in Inputs
    /\ i = 0
    /\ current_date = NoDate
    /\ pending_start_time = NoTime
    /\ programmes = <<>>
    /\ result = <<>>
    /\ again = <<>>
    /\ pc = "parse"
    /\ exit_status = NotExited
    /\ out_dir_created = FALSE
    /\ output = <<>>

\* mutant: a time line is taken as a time marker only while none is pending,
\* so the guard of lines 204-207 keeps the first of two consecutive markers
ClassifyKeepFirst(ln, cd, pst) ==
    IF SECTION_RE_search(ln) THEN "section"
    ELSE IF TIME_RE_match(ln) /\ cd # NoDate /\ pst = NoTime THEN "time"
    ELSE IF pst # NoTime /\ cd # NoDate
         THEN (IF TIME_RE_match(ln) THEN "guard" ELSE "title")
    ELSE "ignored"

\* mutant: line 192 lacks `current_date is not None`
ClassifyTimeAnywhere(ln, cd, pst) ==
    IF SECTION_RE_search(ln) THEN "section"
    ELSE IF TIME_RE_match(ln) THEN "time"
    ELSE IF pst # NoTime /\ cd # NoDate
         THEN (IF TIME_RE_match(ln) THEN "guard" ELSE "title")
    ELSE "ignored"

\* the if-chain of one loop iteration (lines 176, 191-192, 199, 204): which
\* branch handles line ln under the state (current_date, pending_start_time)
Classify(ln, cd, pst) ==
    IF SECTION_RE_search(ln) THEN "section"
    ELSE IF TIME_RE_match(ln) /\ cd # NoDate THEN "time"
    ELSE IF pst # NoTime /\ cd # NoDate
         THEN (IF TIME_RE_match(ln) THEN "guard" ELSE "title")
    ELSE "ignored"

\* mutant: line 186 is missing, a header leaves the pending time in place
NextPendingKeptOnHeader(branch, ln, pst) ==
    IF branch = "section" THEN pst
    ELSE IF branch = "time" THEN <<ln.n1, ln.n2>>
    ELSE IF branch = "title" THEN NoTime
    ELSE pst

\* mutant: line 211 is missing, a consumed title leaves the pending time
NextPendingKeptOnTitle(branch, ln, pst) ==
    IF branch = "section" THEN NoTime
    ELSE IF branch = "time" THEN <<ln.n1, ln.n2>>
    ELSE pst

\* pending_start_time after the branch taken: cleared by a header (line 186),
\* set by a time marker (line 194), cleared by a title (line 211)
NextPending(branch, ln, pst) ==
    IF branch = "section" THEN NoTime
    ELSE IF branch = "time" THEN <<ln.n1, ln.n2>>
    ELSE IF branch = "title" THEN NoTime
    ELSE pst

\* one iteration of the while loop, lines 172-215
ParseLine ==
    /\ pc = "parse"
    /\ i < Len(lines)
    /\ LET ln == lines[i + 1]
           branch == Classify(ln, current_date, pending_start_time)
       IN
       IF branch = "section"
       THEN LET wd == WEEKDAY_ES(Lower(ln.text)) IN
            /\ current_date' =
                 IF wd = NoWeekday THEN NoDate
                 ELSE choose_date_for_section(wd, ln.n1, today)
            /\ pending_start_time' = NextPending(branch, ln, pending_start_time)
            /\ i' = i + 1
            /\ UNCHANGED <<programmes, pc>>
       ELSE IF branch = "time"
       THEN IF ValidTime(ln.n1, ln.n2)
            THEN /\ pending_start_time' = NextPending(branch, ln, pending_start_time)
                 /\ i' = i + 1
                 /\ UNCHANGED <<current_date, programmes, pc>>
            ELSE \* time(hh, mm) raises ValueError, which nothing catches
                 /\ pc' = "raised"
                 /\ UNCHANGED <<i, current_date, pending_start_time, programmes>>
       ELSE IF branch = "title"
       THEN LET start_dt == combine(current_date, pending_start_time) IN
            /\ programmes' =
                 Append(programmes, Programme(start_dt, start_dt, ln.text))
            /\ pending_start_time' = NextPending(branch, ln, pending_start_time)
            /\ i' = i + 1
            /\ UNCHANGED <<current_date, pc>>
       ELSE \* "guard" (lines 204-207) and "ignored" (line 215): advance only
            /\ pending_start_time' = NextPending(branch, ln, pending_start_time)
            /\ i' = i + 1
            /\ UNCHANGED <<current_date, programmes, pc>>
    /\ UNCHANGED <<today, target_weekday, target_day, chosen, lines, result, again>>
    /\ UNCHANGED mainVars

\* loop exit and lines 217-247
Finalize ==
    /\ pc = "parse"
    /\ i >= Len(lines)
    /\ programmes' = Finalized(programmes)
    /\ result' = Returned(programmes)
    /\ pc' = "done"
    /\ UNCHANGED <<today, target_weekday, target_day, chosen, lines, i,
                   current_date, pending_start_time, again>>
    /\ UNCHANGED mainVars

Next == ParseLine \/ Finalize

Spec == Init /\ [][Next]_vars

\* the finalization pass run once more, on the list it returned
Refinalize ==
    /\ pc = "done"
    /\ again' = Returned(result)
    /\ pc' = "refinalized"
    /\ UNCHANGED <<today, target_weekday, target_day, chosen, lines, i,
                   current_date, pending_start_time, programmes, result>>
    /\ UNCHANGED mainVars

NextRefinal == ParseLine \/ Finalize \/ Refinalize

SpecRefinal == Init /\ [][NextRefinal]_vars

(***************************************************************************)
(* main, after parse_schedule has returned or raised (lines 291-305)       *)
(***************************************************************************)
\* mutant: the test of line 292 compares with None, which a list never is
NoProgrammesIsNone(ps) == FALSE

\* line 292: `not programmes`
NoProgrammes(ps) == ps = <<>>

\* lines 292-294: nothing parsed, sys.exit(2)
ExitEmpty ==
    /\ pc = "done"
    /\ NoProgrammes(result)
    /\ exit_status' = 2
    /\ pc' = "exited"
    /\ UNCHANGED <<today, target_weekday, target_day, chosen, lines, i,
                   current_date, pending_start_time, programmes, result, again,
                   out_dir_created, output>>

\* line 296: ensure_output_dir(OUTPUT_FILE)
EnsureOutputDir ==
    /\ pc = "done"
    /\ ~NoProgrammes(result)
    /\ out_dir_created' = TRUE
    /\ pc' = "emit"
    /\ UNCHANGED <<today, target_weekday, target_day, chosen, lines, i,
                   current_date, pending_start_time, programmes, result, again,
                   exit_status, output>>

\* lines 250-272: one <programme> element per entry, in order
build_xmltv(ps) == [k \in 1..Len(ps) |->
    [start |-> ps[k].start, stop |-> ps[k].stop, title |-> ps[k].title]]

\* lines 298-305: build the document, write it, return from main
WriteOutput ==
    /\ pc = "emit"
    /\ output' = <<build_xmltv(result)>>
    /\ exit_status' = 0
    /\ pc' = "exited"
    /\ UNCHANGED <<today, target_weekday, target_day, chosen, lines, i,
                   current_date, pending_start_time, programmes, result, again,
                   out_dir_created>>

\* an exception raised in parse_schedule leaves main uncaught: status 1
Crash ==
    /\ pc = "raised"
    /\ exit_status' = 1
    /\ pc' = "exited"
    /\ UNCHANGED <<today, target_weekday, target_day, chosen, lines, i,
                   current_date, pending_start_time, programmes, result, again,
                   out_dir_created, output>>

NextMain ==
    ParseLine \/ Finalize \/ ExitEmpty \/ EnsureOutputDir \/ WriteOutput \/ Crash

SpecMain == Init /\ [][NextMain]_vars

\* the resolver alone, over every today, weekday and day number of the bounds
InitResolver ==
    /\ today \in {d \in AllDates : ValidDate(d[1], d[2], d[3])}
    /\ target_weekday \in 0..6
    /\ target_day \in 0..MaxDay
    /\ chosen = NoDate
    /\ lines = <<>>
    /\ i = 0
    /\ current_date = NoDate
    /\ pending_start_time = NoTime
    /\ programmes = <<>>
    /\ result = <<>>
    /\ again = <<>>
    /\ pc = "resolve"
    /\ exit_status = NotExited
    /\ out_dir_created = FALSE
    /\ output = <<>>

Resolve ==
    /\ pc = "resolve"
    /\ chosen' = choose_date_for_section(target_weekday, target_day, today)
    /\ pc' = "resolved"
    /\ UNCHANGED <<today, target_weekday, target_day, lines, i, current_date,
                   pending_start_time, programmes, result, again>>
    /\ UNCHANGED mainVars

NextResolver == Resolve

SpecResolver == InitResolver /\ [][NextResolver]_vars

(***************************************************************************)
(* Properties of the resolver (checked under SpecResolver)                 *)
(***************************************************************************)
PrevMonth(ym) == IF ym[2] = 1 THEN <<ym[1] - 1, 12>> ELSE <<ym[1], ym[2] - 1>>
NextMonth(ym) == IF ym[2] = 12 THEN <<ym[1] + 1, 1>> ELSE <<ym[1], ym[2] + 1>>

\* the calendar month before today's, today's, and the one after
WindowMonths(tdy) ==
    {PrevMonth(<<tdy[1], tdy[2]>>), <<tdy[1], tdy[2]>>, NextMonth(<<tdy[1], tdy[2]>>)}

\* the dates of the window with the wanted day-of-month and weekday
Matching(wd, day, tdy) ==
    {<<ym[1], ym[2], day>> :
        ym \in {w \in WindowMonths(tdy) :
                   /\ ValidDate(w[1], w[2], day)
                   /\ weekday(<<w[1], w[2], day>>) = wd}}

DayDistance(d, tdy) == Abs(toordinal(d) - toordinal(tdy))

\* C1: whenever a date with day-of-month target_day (1..31) and weekday
\* target_weekday exists in the previous, current or next calendar month, the
\* resolver returns such a date and none of them is strictly closer to today.
C1_ClosestMatchInWindow ==
    (pc = "resolved" /\ target_day \in 1..31
        /\ Matching(target_weekday, target_day, today) # {})
    => /\ chosen \in Matching(target_weekday, target_day, today)
       /\ \A d \in Matching(target_weekday, target_day, today) :
              DayDistance(chosen, today) <= DayDistance(d, today)

\* no examined month holds target_day on target_weekday
NoExaminedMatch ==
    \A off \in {-1, 0, 1} :
        LET ym == ExaminedMonth(off, today)
        IN  ~(/\ ValidDate(ym[1], ym[2], target_day)
              /\ weekday(<<ym[1], ym[2], target_day>>) = target_weekday)

\* C3: the resolver always returns a date; with no match in the examined
\* months it returns (today.year, today.month, target_day) whatever its
\* weekday, and today itself when today's month has no such day (0, 29..99).
C3_FallbackAlwaysADate ==
    pc = "resolved" =>
        /\ Len(chosen) = 3
        /\ ValidDate(chosen[1], chosen[2], chosen[3])
        /\ NoExaminedMatch =>
              chosen = IF target_day >= 1
                          /\ target_day <= DaysInMonth(today[1], today[2])
                       THEN <<today[1], today[2], target_day>>
                       ELSE today

\* C3 witness: day 31 asked in a month without one, no match anywhere: today
C3_Witness ==
    /\ pc = "resolved"
    /\ NoExaminedMatch
    /\ target_day = 31
    /\ DaysInMonth(today[1], today[2]) < 31
    /\ chosen = today

\* the date of target_day in the month examined for an offset, and whether
\* it survives as a candidate
ExaminedDate(off) ==
    LET ym == ExaminedMonth(off, today) IN <<ym[1], ym[2], target_day>>
Survives(off) ==
    LET ym == ExaminedMonth(off, today)
    IN  /\ ValidDate(ym[1], ym[2], target_day)
        /\ weekday(<<ym[1], ym[2], target_day>>) = target_weekday

\* two surviving candidates, a enumerated before b, equally far from today
\* and none closer
TiedClosest(a, b) ==
    /\ a < b
    /\ Survives(a)
    /\ Survives(b)
    /\ DayDistance(ExaminedDate(a), today) = DayDistance(ExaminedDate(b), today)
    /\ \A c \in {-1, 0, 1} :
          Survives(c) => DayDistance(ExaminedDate(c), today)
                            >= DayDistance(ExaminedDate(a), today)

C2_NeverRaises == pc # "raised"

\* the wall-clock minute of day D at hh:mm, and the calendar day of a minute
At(D, hh, mm) == toordinal(D) * 1440 + hh * 60 + mm
DayOf(dt) == dt \div 1440

\* C4: the returned list is sorted non-decreasing by start, also when the
\* sections of the page are out of chronological order.
C4_SortedByStart ==
    pc = "done" =>
        \A a, b \in 1..Len(result) : a < b => result[a].start <= result[b].start

\* C4 witness: Friday's section precedes Thursday's, programmes on both days
C4_Witness ==
    /\ pc = "done"
    /\ Len(result) >= 2
    /\ \E a, b \in 1..Len(lines) :
          /\ a < b
          /\ lines[a] = SectionLine("viernes", 2)
          /\ lines[b] = SectionLine("Jueves", 1)
    /\ DayOf(result[1].start) < DayOf(result[Len(result)].start)

\* C5: every returned entry has stop strictly after start and a non-empty
\* title.
C5_NonDegenerate ==
    pc = "done" =>
        \A k \in 1..Len(result) :
            result[k].stop > result[k].start /\ result[k].title # ""

\* C5 witness: a returned list from which the filter removed something
C5_Witness ==
    /\ pc = "done"
    /\ result # <<>>
    /\ Len(result) < Len(programmes)

\* C6: two entries adjacent in the returned list that were adjacent in the
\* sorted provisional list too have no gap: the first stops where the second
\* starts.
C6_NoGaps ==
    pc = "done" =>
        \A k \in 1..(Len(result) - 1) : \A a \in 1..(Len(programmes) - 1) :
            (programmes[a] = result[k] /\ programmes[a + 1] = result[k + 1])
                => result[k].stop = result[k + 1].start

\* C6 witness: such a pair exists in a list that also lost an entry
C6_Witness ==
    /\ pc = "done"
    /\ Len(result) < Len(programmes)
    /\ \E k \in 1..(Len(result) - 1) : \E a \in 1..(Len(programmes) - 1) :
          programmes[a] = result[k] /\ programmes[a + 1] = result[k + 1]

\* C7: a non-empty returned list ends with an entry that stops at 00:00 of
\* the day after its start, and the last entry of the sorted provisional list
\* is never removed.
C7_LastRollsOver ==
    pc = "done" =>
        /\ programmes # <<>> => result # <<>>
        /\ result # <<>> =>
              LET last == result[Len(result)] IN
              /\ last.stop % 1440 = 0
              /\ DayOf(last.stop) = DayOf(last.start) + 1
              /\ last = programmes[Len(programmes)]

\* C7 witness: several entries, the last one starting after midnight
C7_Witness ==
    /\ pc = "done"
    /\ Len(result) >= 2
    /\ result[Len(result)].start % 1440 # 0

\* C8: the finalization pass applied to the list it returned returns the
\* same list: nothing removed, no start, stop or title changed.
C8_Idempotent == pc = "refinalized" => again = result

\* C8 witness: a list of two days that the first pass shortened
C8_Witness ==
    /\ pc = "refinalized"
    /\ Len(result) >= 2
    /\ Len(result) < Len(programmes)
    /\ DayOf(result[1].start) < DayOf(result[Len(result)].start)
    /\ again = result

\* one recognized header followed by n >= 1 (time marker, title) pairs with
\* strictly increasing times of day
PairCount == (Len(lines) - 1) \div 2
MinuteOfDay(ln) == ln.n1 * 60 + ln.n2
OneSectionInOrder ==
    /\ Len(lines) >= 3
    /\ Len(lines) % 2 = 1
    /\ lines[1].kind = "section"
    /\ WEEKDAY_ES(Lower(lines[1].text)) # NoWeekday
    /\ \A k \in 1..PairCount :
          /\ lines[2 * k].kind = "time"
          /\ lines[2 * k].n1 \in 0..23
          /\ lines[2 * k].n2 \in 0..59
          /\ lines[2 * k + 1].kind = "text"
    /\ \A k \in 1..(PairCount - 1) :
          MinuteOfDay(lines[2 * k]) < MinuteOfDay(lines[2 * k + 2])

\* C9: a header resolved to D followed by n pairs (t_k, T_k) in increasing
\* time order yields exactly n programmes in that order: the k-th runs from
\* D at t_k to D at t_(k+1) with title T_k, the last one to 00:00 of D + 1.
C9_EndToEnd ==
    (pc = "done" /\ OneSectionInOrder) =>
        /\ current_date # NoDate
        /\ Len(result) = PairCount
        /\ \A k \in 1..PairCount :
              /\ result[k].start =
                    At(current_date, lines[2 * k].n1, lines[2 * k].n2)
              /\ result[k].title = lines[2 * k + 1].text
              /\ result[k].stop =
                    IF k < PairCount
                    THEN At(current_date, lines[2 * k + 2].n1, lines[2 * k + 2].n2)
                    ELSE (toordinal(current_date) + 1) * 1440

\* C9 witness: the scenario of two pairs, 08:00 and 09:30
C9_Witness ==
    /\ pc = "done"
    /\ OneSectionInOrder
    /\ PairCount = 2
    /\ lines[3].text = "Morning News"
    /\ lines[5].text = "Talk Show"
    /\ Len(result) = 2

\* header, time marker, time marker, title
TwoMarkers ==
    /\ Len(lines) = 4
    /\ lines[1].kind = "section"
    /\ WEEKDAY_ES(Lower(lines[1].text)) # NoWeekday
    /\ \A k \in {2, 3} :
          lines[k].kind = "time" /\ lines[k].n1 \in 0..23 /\ lines[k].n2 \in 0..59
    /\ lines[4].kind = "text"

\* the places where a time line is directly followed by a title line
TimeThenTitle ==
    {k \in 1..(Len(lines) - 1) : lines[k].kind = "time" /\ lines[k + 1].kind = "text"}

WeekdayWords ==
    {"lunes", "martes", "miércoles", "miercoles", "jueves", "viernes",
     "sábado", "sabado", "domingo"}
RecognizedHeader(ln) == ln.kind = "section" /\ Lower(ln.text) \in WeekdayWords

\* the last header before line k exists and is a recognized one
InResolved(k) ==
    \E h \in 1..(k - 1) :
        /\ RecognizedHeader(lines[h])
        /\ \A j \in (h + 1)..(k - 1) : lines[j].kind # "section"

\* C11: no programme comes from a line outside a resolved section: the date
\* is set exactly while the last header read is a recognized one, there are
\* no more programmes than title lines inside resolved sections, and an input
\* without a recognized header yields the empty list.
C11_OnlyInsideResolvedSections ==
    pc \in {"parse", "raised", "done"} =>
        /\ current_date # NoDate <=> InResolved(i + 1)
        /\ Len(programmes) <=
              Cardinality({k \in 1..i : lines[k].kind = "text" /\ InResolved(k)})
        /\ (\A k \in 1..Len(lines) : ~RecognizedHeader(lines[k]))
              => (programmes = <<>> /\ result = <<>>)

\* C11 witness: a time and a title under an unknown weekday, then a
\* recognized section with one programme
C11_Witness ==
    /\ pc = "done"
    /\ Len(result) = 1
    /\ \E k \in 3..Len(lines) :
          /\ lines[k].kind = "text"
          /\ lines[k - 1].kind = "time"
          /\ lines[k - 2] \in UnknownHeaders
          /\ ~InResolved(k)

\* C13: a line is handled as a time marker only if it is HH:MM with hour
\* 00..23 and minute 00..59: a line of two digits, colon, two digits outside
\* that range never takes the time-marker branch of the loop.
C13_OnlyTimesOfDayAreMarkers ==
    (/\ pc = "parse"
     /\ i < Len(lines)
     /\ lines[i + 1].kind = "time"
     /\ ~(lines[i + 1].n1 \in 0..23 /\ lines[i + 1].n2 \in 0..59))
    => Classify(lines[i + 1], current_date, pending_start_time) # "time"

\* the title lines among the first n lines that directly follow a time
\* marker of a resolved section
TitledBy(n) ==
    {k \in 2..n : /\ lines[k].kind = "text"
                  /\ lines[k - 1].kind = "time"
                  /\ InResolved(k - 1)}

\* C14: every header, recognized or not, clears pending_start_time, so the
\* line after a header never completes a programme: a time marker read
\* before the header does not attach to a title read after it.
C14_HeaderClearsPending ==
    pc = "parse" =>
        /\ (i >= 1 /\ lines[i].kind = "section") => pending_start_time = NoTime
        /\ (i >= 2 /\ lines[i - 1].kind = "section")
              => Len(programmes) = Cardinality(TitledBy(i - 2))

\* C14 witness: time marker, recognized header, title: still no programme
C14_Witness ==
    /\ pc = "parse"
    /\ i >= 4
    /\ RecognizedHeader(lines[i - 3])
    /\ lines[i - 2].kind = "time"
    /\ RecognizedHeader(lines[i - 1])
    /\ lines[i].kind = "text"
    /\ programmes = <<>>

\* the line number of the j-th title of TitledBy(n), in page order
NthTitled(n, j) ==
    CHOOSE k \in TitledBy(n) : Cardinality({m \in TitledBy(n) : m <= k}) = j

\* C15: each time marker yields at most one programme, whose title is the
\* line right after the marker: the provisional programmes are, in order,
\* exactly the title lines that directly follow a time marker of a resolved
\* section; a title clears pending_start_time, so a further non-time line is
\* ignored and there are never more programmes than such time markers.
C15_OneProgrammePerMarker ==
    pc = "parse" =>
        /\ Len(programmes) = Cardinality(TitledBy(i))
        /\ \A j \in 1..Len(programmes) :
              LET k == NthTitled(i, j) IN
              /\ programmes[j].title = lines[k].text
              /\ programmes[j].start % 1440 =
                    lines[k - 1].n1 * 60 + lines[k - 1].n2
        /\ (i >= 1 /\ lines[i].kind = "text") => pending_start_time = NoTime
        /\ Len(programmes) <=
              Cardinality({k \in 1..i : lines[k].kind = "time" /\ InResolved(k)})

\* C15 witness: header, time marker, title, second title: one programme
C15_Witness ==
    /\ pc = "parse"
    /\ i >= 4
    /\ RecognizedHeader(lines[i - 3])
    /\ lines[i - 2].kind = "time"
    /\ lines[i - 1].kind = "text"
    /\ lines[i].kind = "text"
    /\ Len(programmes) = 1
    /\ programmes[1].title = lines[i - 1].text

\* C17: every step of the parse loop handles the line at the cursor and
\* advances the cursor by exactly one, so that each line is processed once
\* and the loop ends after Len(lines) steps.
C17_EveryStepAdvances ==
    [][(pc = "parse" /\ i < Len(lines)) => (i' = i + 1 /\ pc' = "parse")]_vars

\* C18: in every state of the parse loop pending_start_time is set only if
\* current_date is set, so a title is never taken without a date, and every
\* programme's title is a line that is no time marker.
C18_PendingNeedsDate ==
    pc \in {"parse", "raised", "done"} =>
        /\ pending_start_time # NoTime => current_date # NoDate
        /\ (pc = "parse" /\ i < Len(lines)
              /\ Classify(lines[i + 1], current_date, pending_start_time) = "title")
              => (current_date # NoDate /\ lines[i + 1].kind # "time")
        /\ \A j \in 1..Len(programmes) :
              \E k \in 1..i : lines[k].kind = "text"
                                 /\ lines[k].text = programmes[j].title

\* C18 witness: a time line read before any header left nothing pending; the
\* one read inside the section is pending, with its date
C18_Witness ==
    /\ pc = "parse"
    /\ i >= 3
    /\ lines[1].kind = "time"
    /\ lines[i].kind = "time"
    /\ pending_start_time = <<lines[i].n1, lines[i].n2>>
    /\ current_date # NoDate

\* C19: the starts of the returned list are strictly increasing, so no two
\* entries share a (start, stop, title) triple, and the dedup step removes
\* nothing: the returned entries are as many as the entries of positive
\* length of the sorted list.
C19_StartsStrictlyIncrease ==
    pc = "done" =>
        /\ \A a, b \in 1..Len(result) :
              a < b => result[a].start < result[b].start
        /\ \A a, b \in 1..Len(result) : a # b => result[a] # result[b]
        /\ Len(result) =
              Cardinality({a \in 1..Len(programmes) :
                              programmes[a].stop > programmes[a].start})

\* C19 witness: the page echoes a block (same start, same title twice) and
\* still returns several entries
C19_Witness ==
    /\ pc = "done"
    /\ Len(result) >= 2
    /\ \E a \in 1..(Len(programmes) - 1) :
          /\ programmes[a].start = programmes[a + 1].start
          /\ programmes[a].title = programmes[a + 1].title

\* the last provisional programme, in parse order, that starts at s
LastWithStart(ps, s) ==
    ps[CHOOSE b \in 1..Len(ps) :
          /\ ps[b].start = s
          /\ \A c \in (b + 1)..Len(ps) : ps[c].start # s]

\* C20: of the provisional programmes that share a start (with equal or
\* different titles) the returned list holds exactly one entry with that
\* start, and it is the one that came last in parse order.
C20_LastOfEqualStartsKept ==
    [][(pc = "parse" /\ pc' = "done") =>
          \A a \in 1..Len(programmes) :
              LET s == programmes[a].start IN
              /\ Cardinality({k \in 1..Len(result') : result'[k].start = s}) = 1
              /\ \A k \in 1..Len(result') :
                    result'[k].start = s
                       => result'[k].title = LastWithStart(programmes, s).title
       ]_vars

\* C20 witness: two programmes of one start with different titles; the
\* returned entry of that start carries the later title
C20_Witness ==
    /\ pc = "done"
    /\ \E a \in 1..(Len(programmes) - 1) :
          /\ programmes[a].start = programmes[a + 1].start
          /\ programmes[a].title # programmes[a + 1].title
          /\ \E k \in 1..Len(result) :
                /\ result[k].start = programmes[a + 1].start
                /\ result[k].title = programmes[a + 1].title

(***************************************************************************)
(* Properties of main (checked under SpecMain)                             *)
(***************************************************************************)
\* C12: when parse_schedule returns the empty list the process exits with
\* status 2 having neither created the output directory nor written the
\* file; the directory is created and the file written only in runs whose
\* returned list is non-empty.
C12_EmptyStopsBeforeOutput ==
    /\ exit_status = 2 => (result = <<>> /\ ~out_dir_created /\ output = <<>>)
    /\ (pc \in {"emit", "exited"} /\ exit_status # 1 /\ result = <<>>)
          => exit_status = 2
    /\ out_dir_created => result # <<>>
    /\ output # <<>> => (result # <<>> /\ out_dir_created)

\* C12 witness: times and titles under no recognized header, exit status 2
C12_Witness ==
    /\ pc = "exited"
    /\ exit_status = 2
    /\ \E k \in 2..Len(lines) :
          lines[k].kind = "text" /\ lines[k - 1].kind = "time"
    /\ ~out_dir_created
    /\ output = <<>>

====
